---- MODULE Spec2Model ----
(***************************************************************************)
(* rexpr: a line evaluator for integer arithmetic.                         *)
(*   text --Tokenizer::tokenize--> tokens --Parser::parse--> Node          *)
(*        --Eval::eval--> i32                                              *)
(* A line is a sequence of one-character strings.  A Token is a record     *)
(* whose type is the variant of tokenizer.rs (Space, Number, Operator,     *)
(* LParent, RParent).  parser.rs names the operator and parenthesis        *)
(* variants Plus, Minus, Mul, Div, LParen and RParen: these are            *)
(* Operator("+"), Operator("-"), Operator("*"), Operator("/"), LParent and *)
(* RParent below.  Space and Operator("%") have no arm of their own in the *)
(* parser and fall into its wildcard arms.                                 *)
(***************************************************************************)
EXTENDS Integers, Sequences, FiniteSets, TLC

\* ------------------------------------------------------------------ bounds
MaxLen == 4
MaxTokens == 5

\* ----------------------------------------------------------- i32 constants
I32Max == 2147483647
I32Min == (-2147483647) - 1

\* ------------------------------------------------------------- characters
Digits == {"0", "1", "2", "3", "4", "5", "6", "7", "8", "9"}
OperatorChars == {"+", "-", "*", "/", "%"}

DigitVal(c) ==
  CASE c = "0" -> 0 [] c = "1" -> 1 [] c = "2" -> 2 [] c = "3" -> 3
    [] c = "4" -> 4 [] c = "5" -> 5 [] c = "6" -> 6 [] c = "7" -> 7
    [] c = "8" -> 8 [] c = "9" -> 9

\* ------------------------------------------------------------------ tokens
TSpace == [type |-> "Space"]
TNumber(s) == [type |-> "Number", text |-> s]
TOperator(c) == [type |-> "Operator", text |-> <<c>>]
TLParent == [type |-> "LParent"]
TRParent == [type |-> "RParent"]

\* impl Display for Token: the text a token prints as; Space is todo!().
DisplayPanics(tok) == tok.type = "Space"
DisplayToken(tok) ==
  CASE tok.type = "Number" -> tok.text
    [] tok.type = "Operator" -> tok.text
    [] tok.type = "LParent" -> <<"(">>
    [] tok.type = "RParent" -> <<")">>

\* --------------------------------------------------------------- tokenizer
\* the digit run at the head of chars (the inner while-let of next_token)
RECURSIVE DigitRun(_)
DigitRun(chars) ==
  IF chars # <<>> /\ Head(chars) \in Digits
    THEN <<Head(chars)>> \o DigitRun(Tail(chars))
    ELSE <<>>

Drop(s, n) == SubSeq(s, n + 1, Len(s))

\* Tokenizer::consume: advance one character and hand the token back
consume(chars, token) == [kind |-> "Some", tok |-> token, rest |-> Tail(chars)]

\* a lexer whose operator arm lacks '%'
next_token_no_percent(chars, ln, cl) ==
  IF chars = <<>> THEN [kind |-> "None", rest |-> chars]
  ELSE LET c == Head(chars) IN
    CASE c = " " -> consume(chars, TSpace)
      [] c = "(" -> consume(chars, TLParent)
      [] c = ")" -> consume(chars, TRParent)
      [] c \in OperatorChars \ {"%"} -> consume(chars, TOperator(c))
      [] c \in Digits ->
           LET s == DigitRun(chars) IN
             [kind |-> "Some", tok |-> TNumber(s), rest |-> Drop(chars, Len(s))]
      [] OTHER ->
           [kind |-> "Err", rest |-> chars,
            err |-> [message |-> "Unknow symbol", line |-> ln, col |-> cl]]

\* Tokenizer::next_token on the remaining characters, with self.line/self.col
next_token(chars, ln, cl) ==
  IF chars = <<>> THEN [kind |-> "None", rest |-> chars]
  ELSE LET c == Head(chars) IN
    CASE c = " " -> consume(chars, TSpace)
      [] c = "(" -> consume(chars, TLParent)
      [] c = ")" -> consume(chars, TRParent)
      [] c \in OperatorChars -> consume(chars, TOperator(c))
      [] c \in Digits ->
           LET s == DigitRun(chars) IN
             [kind |-> "Some", tok |-> TNumber(s), rest |-> Drop(chars, Len(s))]
      [] OTHER ->
           [kind |-> "Err", rest |-> chars,
            err |-> [message |-> "Unknow symbol", line |-> ln, col |-> cl]]

\* a column counter that counts tokens instead of characters
ColAdvancePerToken(tok) == 1

\* the column advance of tokenize's match on the token
ColAdvance(tok) ==
  CASE tok.type \in {"Space", "LParent", "RParent"} -> 1
    [] tok.type = "Number" -> Len(tok.text)
    [] tok.type = "Operator" -> Len(tok.text)

\* ------------------------------------------------------------------- nodes
Number(n) == [tag |-> "Number", n |-> n]
BinaryExpr(op, lhs, rhs) == [tag |-> "BinaryExpr", op |-> op, lhs |-> lhs, rhs |-> rhs]
UnaryExpr(op, child) == [tag |-> "UnaryExpr", op |-> op, child |-> child]

\* ------------------------------------------------------------------ parser
\* str::parse::<i32> on a digit text: None on an empty text or on a value
\* above i32::MAX (checked multiply by ten, checked add of the digit)
RECURSIVE ParseI32From(_, _)
ParseI32From(acc, s) ==
  IF s = <<>> THEN [kind |-> "Ok", v |-> acc]
  ELSE LET d == DigitVal(Head(s)) IN
    IF acc > (I32Max - d) \div 10 THEN [kind |-> "Err"]
    ELSE ParseI32From(acc * 10 + d, Tail(s))

ParseI32(s) == IF s = <<>> THEN [kind |-> "Err"] ELSE ParseI32From(0, s)

POk(node, rest) == [kind |-> "Ok", node |-> node, rest |-> rest]
PErr(message, rest) == [kind |-> "Err", message |-> message, rest |-> rest]
PPanic(rest) == [kind |-> "Panic", rest |-> rest]

IsOp(tok, c) == tok.type = "Operator" /\ tok.text = <<c>>

\* Parser::skip with the predicate of parse_factor (the token is RParen)
skip(tokens) ==
  IF tokens # <<>> /\ Head(tokens).type = "RParent"
    THEN [kind |-> "Ok", rest |-> Tail(tokens)]
    ELSE PErr(<<"unknow token">>, tokens)

RECURSIVE parse_expr(_), parse_term(_), parse_factor(_)

\* Parser::parse_factor: factor -> number | neg factor | lparen expr rparen
parse_factor(tokens) ==
  IF tokens = <<>> THEN PErr(<<"expected factor">>, tokens)
  ELSE LET factor == Head(tokens) IN
    CASE factor.type = "Number" ->
           LET n == ParseI32(factor.text) IN
             IF n.kind = "Ok" THEN POk(Number(n.v), Tail(tokens))
             ELSE PPanic(Tail(tokens))
      [] IsOp(factor, "-") ->
           LET f == parse_factor(Tail(tokens)) IN
             IF f.kind # "Ok" THEN f
             ELSE POk(UnaryExpr("Neg", f.node), f.rest)
      [] factor.type = "LParent" ->
           LET expr == parse_expr(Tail(tokens)) IN
             IF expr.kind # "Ok" THEN expr
             ELSE LET sk == skip(expr.rest) IN
               IF sk.kind # "Ok" THEN sk ELSE POk(expr.node, sk.rest)
      [] OTHER ->
           IF DisplayPanics(factor) THEN PPanic(tokens)
           ELSE PErr(<<"unexpected token ">> \o DisplayToken(factor), tokens)

\* a term that gives up its operator when the right operand fails
parse_term_swallow(tokens) ==
  LET factor == parse_factor(tokens) IN
    IF factor.kind # "Ok" THEN factor
    ELSE IF factor.rest # <<>> /\ IsOp(Head(factor.rest), "*") THEN
      LET term == parse_term(Tail(factor.rest)) IN
        IF term.kind # "Ok" THEN POk(factor.node, term.rest)
        ELSE POk(BinaryExpr("Mul", factor.node, term.node), term.rest)
    ELSE IF factor.rest # <<>> /\ IsOp(Head(factor.rest), "/") THEN
      LET term == parse_term(Tail(factor.rest)) IN
        IF term.kind # "Ok" THEN POk(factor.node, term.rest)
        ELSE POk(BinaryExpr("Div", factor.node, term.node), term.rest)
    ELSE factor

\* Parser::parse_term: term -> factor ord_2_op term | factor
parse_term(tokens) ==
  LET factor == parse_factor(tokens) IN
    IF factor.kind # "Ok" THEN factor
    ELSE IF factor.rest # <<>> /\ IsOp(Head(factor.rest), "*") THEN
      LET term == parse_term(Tail(factor.rest)) IN
        IF term.kind # "Ok" THEN term
        ELSE POk(BinaryExpr("Mul", factor.node, term.node), term.rest)
    ELSE IF factor.rest # <<>> /\ IsOp(Head(factor.rest), "/") THEN
      LET term == parse_term(Tail(factor.rest)) IN
        IF term.kind # "Ok" THEN term
        ELSE POk(BinaryExpr("Div", factor.node, term.node), term.rest)
    ELSE factor

\* Parser::parse_expr: expr -> term ord_1_op expr | term
parse_expr(tokens) ==
  LET term == parse_term(tokens) IN
    IF term.kind # "Ok" THEN term
    ELSE IF term.rest # <<>> /\ IsOp(Head(term.rest), "+") THEN
      LET expr == parse_expr(Tail(term.rest)) IN
        IF expr.kind # "Ok" THEN expr
        ELSE POk(BinaryExpr("Plus", term.node, expr.node), expr.rest)
    ELSE IF term.rest # <<>> /\ IsOp(Head(term.rest), "-") THEN
      LET expr == parse_expr(Tail(term.rest)) IN
        IF expr.kind # "Ok" THEN expr
        ELSE POk(BinaryExpr("Minus", term.node, expr.node), expr.rest)
    ELSE term

\* Parser::parse: parse_expr from the first token; the iterator is dropped
\* on return, whatever it still holds (kept here as rest)
parse(tokens) == parse_expr(tokens)

\* -------------------------------------------------------------------- eval
\* i32 arithmetic.  A result outside i32 panics when the build checks
\* overflow (debug) and wraps modulo 2^32 when it does not (release).
Val(v) == [kind |-> "Val", v |-> v]
EPanic == [kind |-> "Panic"]

AddOverflows(l, r) ==
  \/ r > 0 /\ l > I32Max - r
  \/ r < 0 /\ l < I32Min - r
\* l + r reduced modulo 2^32 into i32, every intermediate value inside i32
WrapAdd(l, r) ==
  IF r > 0 /\ l > I32Max - r THEN (l + I32Min) + (r + I32Min)
  ELSE IF r < 0 /\ l < I32Min - r THEN (l - I32Min) + (r - I32Min)
  ELSE l + r

SubOverflows(l, r) ==
  \/ r > 0 /\ l < I32Min + r
  \/ r < 0 /\ l > I32Max + r
WrapSub(l, r) ==
  IF r > 0 /\ l < I32Min + r THEN (l - I32Min) + ((-r) - I32Min)
  ELSE IF r < 0 /\ l > I32Max + r THEN (l + I32Min) + (I32Min - r)
  ELSE l - r

NegOverflows(x) == x = I32Min
WrapNeg(x) == IF x = I32Min THEN I32Min ELSE -x

MulOverflows(l, r) ==
  IF l = 0 \/ r = 0 THEN FALSE
  ELSE IF l > 0 /\ r > 0 THEN l > I32Max \div r
  ELSE IF l > 0 /\ r < 0 THEN r < (I32Min + l - 1) \div l
  ELSE IF l < 0 /\ r > 0 THEN l < (I32Min + r - 1) \div r
  ELSE l = I32Min \/ r = I32Min \/ (-l) > I32Max \div (-r)
\* l * r modulo 2^32 by doubling, so that no intermediate value leaves i32
RECURSIVE WrapMul(_, _)
WrapMul(l, r) ==
  IF r = 0 THEN 0
  ELSE IF r < 0 THEN WrapSub(WrapNeg(WrapMul(l, -(r + 1))), l)
  ELSE LET h == WrapMul(l, r \div 2)
           d == WrapAdd(h, h)
       IN IF r % 2 = 1 THEN WrapAdd(d, l) ELSE d

\* i32 division truncates toward zero (r # 0 and not MIN / -1)
TruncDiv(l, r) ==
  IF r > 0 THEN (IF l >= 0 THEN l \div r ELSE (l + r - 1) \div r)
  ELSE IF r = I32Min THEN (IF l = I32Min THEN 1 ELSE 0)
  ELSE IF l >= 0 THEN -(l \div (-r))
  ELSE -((l + (-r) - 1) \div (-r))

\* one binary operator of Eval::eval on i32 operands; checks is the build's
\* overflow-checks setting
Apply(op, l, r, checks) ==
  CASE op = "Plus" ->
         IF AddOverflows(l, r)
           THEN (IF checks THEN EPanic ELSE Val(WrapAdd(l, r)))
           ELSE Val(l + r)
    [] op = "Minus" ->
         IF SubOverflows(l, r)
           THEN (IF checks THEN EPanic ELSE Val(WrapSub(l, r)))
           ELSE Val(l - r)
    [] op = "Mul" ->
         IF MulOverflows(l, r)
           THEN (IF checks THEN EPanic ELSE Val(WrapMul(l, r)))
           ELSE Val(l * r)
    [] op = "Div" ->
         IF r = 0 THEN EPanic
         ELSE IF l = I32Min /\ r = -1 THEN EPanic
         ELSE Val(TruncDiv(l, r))

\* Eval::eval: the children first (left before right), then the operator
RECURSIVE eval(_, _)
eval(node, checks) ==
  CASE node.tag = "Number" -> Val(node.n)
    [] node.tag = "UnaryExpr" ->
         LET child == eval(node.child, checks) IN
           IF child.kind = "Panic" THEN EPanic
           ELSE IF NegOverflows(child.v)
             THEN (IF checks THEN EPanic ELSE Val(WrapNeg(child.v)))
             ELSE Val(-child.v)
    [] node.tag = "BinaryExpr" ->
         LET left_result == eval(node.lhs, checks) IN
           IF left_result.kind = "Panic" THEN EPanic
           ELSE LET right_result == eval(node.rhs, checks) IN
             IF right_result.kind = "Panic" THEN EPanic
             ELSE Apply(node.op, left_result.v, right_result.v, checks)

\* ------------------------------------------------------------------ inputs
Alphabet == {" ", "(", ")", "+", "-", "*", "/", "%", "0", "1", "2", "@"}

SeqsUpTo(S, n) == UNION {[1..k -> S] : k \in 0..n}

\* lines of the tests and of the documentation, beyond the bounded ones
SampleLines ==
  { <<"1", " ", "+", " ", "2", " ", "*", " ", "3">>,
    <<"(", "1", " ", "+", " ", "2", ")", " ", "*", " ", "3">>,
    <<"-", "(", "1", " ", "+", " ", "2", ")", " ", "*", " ", "3">>,
    <<"1", " ", "+", " ", "-", "2", " ", "*", " ", "3">>,
    <<"5", " ", "-", " ", "2", " ", "-", " ", "1">>,
    <<"8", " ", "/", " ", "4", " ", "/", " ", "2">>,
    <<"1", "+", "2", "*", "3">>,
    <<"2", "*", "3", "+", "1">>,
    <<"(", "1", "+", "2", ")", "*", "3">>,
    <<"-", "(", "1", "+", "2", ")", "*", "3">>,
    <<"1", "+", "-", "2", "*", "3">>,
    <<"5", "-", "2", "-", "1">>,
    <<"8", "/", "4", "/", "2">>,
    <<"-", "2", "*", "3">>,
    <<"1", " ", "/", " ", "2">>,
    <<"1", " ", "/", " ", "0">>,
    <<")", "1", " ", "+", " ", "2", "(">>,
    <<"1", "2", "3", " ", "4", "5", "6">>,
    <<"+", " ", "-", " ", "*", " ", "/", " ", "%">>,
    <<"1", "2", "3", "4", "5", "@", "1">>,
    <<"(", "1", "0", " ", "+", "2", "0", "0", ")", "#">>,
    <<"2", "1", "4", "7", "4", "8", "3", "6", "4", "7">>,
    <<"2", "1", "4", "7", "4", "8", "3", "6", "4", "8">>,
    <<"9", "9", "9", "9", "9", "9", "9", "9", "9", "9", "9">>,
    <<"0", "0", "0", "0", "0", "0", "0", "0", "0", "0", "4", "2">>,
    <<"4", "0", "9", "6">>,
    <<"1", "/", "(", "1", "-", "1", ")">>,
    <<"2", "1", "4", "7", "4", "8", "3", "6", "4", "7", "+", "1">>,
    <<"6", "5", "5", "3", "6", "*", "6", "5", "5", "3", "6">>,
    <<"-", "2", "1", "4", "7", "4", "8", "3", "6", "4", "7", "-", "2">>,
    <<"(", "-", "2", "1", "4", "7", "4", "8", "3", "6", "4", "7", "-", "1", ")", "/", "-", "1">>,
    <<"-", "(", "-", "2", "1", "4", "7", "4", "8", "3", "6", "4", "7", "-", "1", ")">> }

Lines == SeqsUpTo(Alphabet, MaxLen) \cup SampleLines

Nums == {TNumber(<<"0">>), TNumber(<<"1">>), TNumber(<<"2">>)}
AddOps == {TOperator("+"), TOperator("-")}
MulOps == {TOperator("*"), TOperator("/")}
TokenAlphabet == Nums \cup AddOps \cup MulOps \cup {TLParent, TRParent}

N(c) == TNumber(<<c>>)
\* operand, operator, operand, operator, operand
Chains ==
  {<<a, o1, b, o2, c>> : a \in Nums, o1 \in AddOps \cup MulOps, b \in Nums,
                         o2 \in AddOps \cup MulOps, c \in {N("1"), N("2")}}

\* ( operand operator operand ) operator operand, and its mirror image
ParenChains ==
  {<<TLParent, a, o1, b, TRParent, o2, c>> :
     a \in Nums, o1 \in AddOps \cup MulOps, b \in {N("1"), N("2")},
     o2 \in AddOps \cup MulOps, c \in {N("1"), N("2")}}
  \cup
  {<<a, o1, TLParent, b, o2, c, TRParent>> :
     a \in Nums, o1 \in AddOps \cup MulOps, b \in Nums,
     o2 \in AddOps \cup MulOps, c \in {N("1"), N("2")}}

\* token sequences of the tests and of the documentation
SampleTokens ==
  { <<N("1"), TOperator("+"), N("2"), TOperator("*"), N("3")>>,
    <<TLParent, N("1"), TOperator("+"), N("2"), TRParent, TOperator("*"), N("3")>>,
    <<TOperator("-"), TLParent, N("1"), TOperator("+"), N("2"), TRParent,
      TOperator("*"), N("3")>>,
    <<N("1"), TOperator("+"), TOperator("-"), N("2"), TOperator("*"), N("3")>>,
    <<N("5"), TOperator("-"), N("2"), TOperator("-"), N("1")>>,
    <<N("8"), TOperator("/"), N("4"), TOperator("/"), N("2")>>,
    <<N("1"), TSpace, N("2")>>,
    <<TSpace, N("1")>>,
    <<N("1"), TOperator("%"), N("2")>>,
    <<TOperator("%"), N("2")>>,
    <<TRParent, N("1"), TOperator("+"), N("2"), TLParent>>,
    <<N("1"), TOperator("+"), N("2"), TRParent>> }

TokenSeqs == SeqsUpTo(TokenAlphabet, MaxTokens) \cup Chains \cup ParenChains \cup SampleTokens

\* ------------------------------------------------------------------- state
VARIABLES
  pc,            \* where main (or a caller of the library) stands
  text,          \* Tokenizer.text
  chars,         \* what the Peekable<Chars> of tokenize still holds
  line,          \* Tokenizer.line
  col,           \* Tokenizer.col
  tokens,        \* the Vec<Token> tokenize is building
  lexErr,        \* the TokenizerError tokenize returned, if any
  parser_tokens, \* Parser.tokens
  parseRes,      \* what Parser::parse returned
  evalRes,       \* what Eval::eval returned
  checks         \* whether the build checks integer overflow

vars == <<pc, text, chars, line, col, tokens, lexErr, parser_tokens, parseRes,
          evalRes, checks>>

None == [kind |-> "None"]

Init ==
  /\ pc = "readline"
  /\ text = <<>> /\ chars = <<>> /\ line = 1 /\ col = 1
  /\ tokens = <<>> /\ lexErr = None
  /\ parser_tokens = <<>> /\ parseRes = None /\ evalRes = None
  /\ checks \in BOOLEAN

\* main: rl.readline returned Ok(line); Tokenizer::new(&line)
ReadLine ==
  /\ pc = "readline"
  /\ \E l \in Lines :
       /\ text' = l
       /\ chars' = l
  /\ line' = 1 /\ col' = 1
  /\ tokens' = <<>> /\ lexErr' = None
  /\ parser_tokens' = <<>> /\ parseRes' = None /\ evalRes' = None
  /\ pc' = "tokenize"
  /\ UNCHANGED checks

\* one turn of the while-let of Tokenizer::tokenize that yields a token
TokenizeToken ==
  /\ pc = "tokenize"
  /\ LET r == next_token(chars, line, col) IN
       /\ r.kind = "Some"
       /\ col' = col + ColAdvance(r.tok)
       /\ tokens' = Append(tokens, r.tok)
       /\ chars' = r.rest
  /\ UNCHANGED <<pc, text, line, lexErr, parser_tokens, parseRes, evalRes, checks>>

\* next_token returned Ok(None): tokenize returns Ok(tokens), and main hands
\* them to Parser::new
TokenizeOk ==
  /\ pc = "tokenize"
  /\ next_token(chars, line, col).kind = "None"
  /\ parser_tokens' = tokens
  /\ pc' = "parse"
  /\ UNCHANGED <<text, chars, line, col, tokens, lexErr, parseRes, evalRes, checks>>

\* next_token returned Err: the ? of tokenize returns it and drops tokens
TokenizeErr ==
  /\ pc = "tokenize"
  /\ LET r == next_token(chars, line, col) IN
       /\ r.kind = "Err"
       /\ lexErr' = [kind |-> "Err", err |-> r.err]
  /\ tokens' = <<>>
  /\ pc' = "print"
  /\ UNCHANGED <<text, chars, line, col, parser_tokens, parseRes, evalRes, checks>>

\* a caller of the library (the tests) builds a Parser from tokens of its own
ParserNew ==
  /\ pc = "readline"
  /\ \E ts \in TokenSeqs : parser_tokens' = ts
  /\ text' = <<>> /\ chars' = <<>> /\ line' = 1 /\ col' = 1
  /\ tokens' = <<>> /\ lexErr' = None
  /\ parseRes' = None /\ evalRes' = None
  /\ pc' = "parse"
  /\ UNCHANGED checks

\* Parser::parse; a panic inside it ends the process
Parse ==
  /\ pc = "parse"
  /\ LET r == parse(parser_tokens) IN
       /\ parseRes' = r
       /\ pc' = CASE r.kind = "Ok" -> "eval"
                  [] r.kind = "Err" -> "print"
                  [] r.kind = "Panic" -> "crashed"
  /\ UNCHANGED <<text, chars, line, col, tokens, lexErr, parser_tokens, evalRes, checks>>

\* Eval::eval on the tree; a panic inside it ends the process
Evaluate ==
  /\ pc = "eval"
  /\ LET r == eval(parseRes.node, checks) IN
       /\ evalRes' = r
       /\ pc' = IF r.kind = "Panic" THEN "crashed" ELSE "print"
  /\ UNCHANGED <<text, chars, line, col, tokens, lexErr, parser_tokens, parseRes, checks>>

\* main prints the value or the error and loops to the next readline
PrintLn ==
  /\ pc = "print"
  /\ pc' = "readline"
  /\ text' = <<>> /\ chars' = <<>> /\ line' = 1 /\ col' = 1
  /\ tokens' = <<>> /\ lexErr' = None
  /\ parser_tokens' = <<>> /\ parseRes' = None /\ evalRes' = None
  /\ UNCHANGED checks

\* rl.readline returned Interrupted, Eof or another error: main breaks
Quit ==
  /\ pc = "readline"
  /\ pc' = "exited"
  /\ UNCHANGED <<text, chars, line, col, tokens, lexErr, parser_tokens, parseRes,
                 evalRes, checks>>

\* the line evaluator of main
Next ==
  \/ ReadLine
  \/ TokenizeToken
  \/ TokenizeOk
  \/ TokenizeErr
  \/ Parse
  \/ Evaluate
  \/ PrintLn
  \/ Quit

Spec == Init /\ [][Next]_vars

\* the parser and the evaluator under a caller's own token sequences
NextParser ==
  \/ ParserNew
  \/ Parse
  \/ Evaluate
  \/ PrintLn

SpecParser == Init /\ [][NextParser]_vars

TypeOK ==
  /\ pc \in {"readline", "tokenize", "parse", "eval", "print", "crashed", "exited"}
  /\ col \in Nat /\ line = 1
  /\ lexErr.kind \in {"None", "Err"}
  /\ parseRes.kind \in {"None", "Ok", "Err", "Panic"}
  /\ evalRes.kind \in {"None", "Val", "Panic"}

\* ------------------------------------------------------ helpers of the claims
Last(s) == s[Len(s)]
IsNum(tok) == tok.type = "Number"
NumNode(tok) == Number(ParseI32(tok.text).v)
OpName(tok) ==
  CASE tok.text = <<"+">> -> "Plus" [] tok.text = <<"-">> -> "Minus"
    [] tok.text = <<"*">> -> "Mul" [] tok.text = <<"/">> -> "Div"
Bin(o, l, r) == BinaryExpr(OpName(o), l, r)
Neg(x) == UnaryExpr("Neg", x)
Parsed == parseRes.kind # "None"
Evaluated == evalRes.kind # "None"
Lexed == pc \in {"parse", "eval", "print", "crashed"}

\* the tree has a Div node whose right operand evaluates to 0
RECURSIVE DividesByZero(_, _)
DividesByZero(node, ck) ==
  CASE node.tag = "Number" -> FALSE
    [] node.tag = "UnaryExpr" -> DividesByZero(node.child, ck)
    [] node.tag = "BinaryExpr" ->
         \/ node.op = "Div" /\ eval(node.rhs, ck) = Val(0)
         \/ DividesByZero(node.lhs, ck)
         \/ DividesByZero(node.rhs, ck)

\* the decimal digits of a natural number
RECURSIVE Decimal(_)
Decimal(v) ==
  LET d == <<"0", "1", "2", "3", "4", "5", "6", "7", "8", "9">>[(v % 10) + 1] IN
    IF v < 10 THEN <<d>> ELSE Append(Decimal(v \div 10), d)
RECURSIVE StripZeros(_)
StripZeros(s) ==
  IF Len(s) > 1 /\ Head(s) = "0" THEN StripZeros(Tail(s)) ELSE s
AllDigits(s) == s # <<>> /\ \A i \in DOMAIN s : s[i] \in Digits

\* ------------------------------------------------------------------ claims

\* C1: whenever Parser::parse returns Ok, no token of the sequence is left
\* unconsumed.
C1_OkConsumesAll == parseRes.kind = "Ok" => parseRes.rest = <<>>

\* C2: once a tree with a Div node whose right operand evaluates to 0 has been
\* evaluated, the outcome is an error handed back to main, which goes on to
\* print it: no integer result, no abnormal end of the process.
C2_DivByZeroIsError ==
  (pc \in {"print", "crashed"} /\ parseRes.kind = "Ok"
     /\ DividesByZero(parseRes.node, checks))
    => (pc = "print" /\ evalRes.kind = "Err")

\* The parser on token sequences without Space: a o1 b o2 c with o1 additive
\* and o2 multiplicative parses to (o1 a (o2 b c)), a o2 b o1 c to
\* (o1 (o2 a b) c); a parenthesized expression is one operand.
Parser_Precedence ==
  LET ts == parser_tokens IN
  /\ (Parsed /\ Len(ts) = 5 /\ IsNum(ts[1]) /\ IsNum(ts[3]) /\ IsNum(ts[5])
        /\ ts[2] \in AddOps /\ ts[4] \in MulOps)
       => parseRes = POk(Bin(ts[2], NumNode(ts[1]),
                             Bin(ts[4], NumNode(ts[3]), NumNode(ts[5]))), <<>>)
  /\ (Parsed /\ Len(ts) = 5 /\ IsNum(ts[1]) /\ IsNum(ts[3]) /\ IsNum(ts[5])
        /\ ts[2] \in MulOps /\ ts[4] \in AddOps)
       => parseRes = POk(Bin(ts[4], Bin(ts[2], NumNode(ts[1]), NumNode(ts[3])),
                             NumNode(ts[5])), <<>>)
  /\ (Parsed /\ ts \in ParenChains /\ ts[1] = TLParent)
       => parseRes = POk(Bin(ts[6], Bin(ts[3], NumNode(ts[2]), NumNode(ts[4])),
                             NumNode(ts[7])), <<>>)
  /\ (Parsed /\ ts \in ParenChains /\ ts[3] = TLParent)
       => parseRes = POk(Bin(ts[2], NumNode(ts[1]),
                             Bin(ts[5], NumNode(ts[4]), NumNode(ts[6]))), <<>>)
  /\ (Evaluated /\ ts = <<N("1"), TOperator("+"), N("2"), TOperator("*"), N("3")>>)
       => evalRes = Val(7)
  /\ (Evaluated /\ ts = <<TLParent, N("1"), TOperator("+"), N("2"), TRParent,
                          TOperator("*"), N("3")>>)
       => evalRes = Val(9)

\* The parser on token sequences without Space: a o1 b o2 c with both
\* operators of one level parses to (o1 a (o2 b c)).
Parser_RightGrouping ==
  LET ts == parser_tokens IN
  /\ (Parsed /\ Len(ts) = 5 /\ IsNum(ts[1]) /\ IsNum(ts[3]) /\ IsNum(ts[5])
        /\ (({ts[2], ts[4]} \subseteq AddOps) \/ ({ts[2], ts[4]} \subseteq MulOps)))
       => parseRes = POk(Bin(ts[2], NumNode(ts[1]),
                             Bin(ts[4], NumNode(ts[3]), NumNode(ts[5]))), <<>>)
  /\ (Evaluated /\ ts = <<N("5"), TOperator("-"), N("2"), TOperator("-"), N("1")>>)
       => evalRes = Val(4)
  /\ (Evaluated /\ ts = <<N("8"), TOperator("/"), N("4"), TOperator("/"), N("2")>>)
       => evalRes = Val(4)

\* The parser on token sequences without Space: a '-' where a factor is
\* required negates exactly the next factor.
Parser_NegationBindsFactor ==
  LET ts == parser_tokens IN
  /\ (Parsed /\ Len(ts) = 4 /\ IsOp(ts[1], "-") /\ IsNum(ts[2])
        /\ ts[3] \in AddOps \cup MulOps /\ IsNum(ts[4]))
       => parseRes = POk(Bin(ts[3], Neg(NumNode(ts[2])), NumNode(ts[4])), <<>>)
  /\ (Parsed /\ Len(ts) = 4 /\ IsNum(ts[1]) /\ ts[2] \in AddOps \cup MulOps
        /\ IsOp(ts[3], "-") /\ IsNum(ts[4]))
       => parseRes = POk(Bin(ts[2], NumNode(ts[1]), Neg(NumNode(ts[4]))), <<>>)
  /\ (Parsed /\ Len(ts) = 5 /\ IsOp(ts[1], "-") /\ IsOp(ts[2], "-") /\ IsNum(ts[3])
        /\ ts[4] \in AddOps \cup MulOps /\ IsNum(ts[5]))
       => parseRes = POk(Bin(ts[4], Neg(Neg(NumNode(ts[3]))), NumNode(ts[5])), <<>>)
  /\ (Parsed /\ Len(ts) = 4 /\ IsOp(ts[1], "-") /\ ts[2] = TLParent /\ IsNum(ts[3])
        /\ ts[4] = TRParent)
       => parseRes = POk(Neg(NumNode(ts[3])), <<>>)
  /\ (Evaluated /\ ts = <<N("1"), TOperator("+"), TOperator("-"), N("2"),
                          TOperator("*"), N("3")>>)
       => evalRes = Val(-5)
  /\ (Evaluated /\ ts = <<TOperator("-"), TLParent, N("1"), TOperator("+"), N("2"),
                          TRParent, TOperator("*"), N("3")>>)
       => evalRes = Val(-9)

\* the characters of a line other than spaces
NonSpace(s) == SelectSeq(s, LAMBDA c : c # " ")
Dg(c) == Number(DigitVal(c))
BinC(c, l, r) == Bin(TOperator(c), l, r)
AddChars == {"+", "-"}
MulChars == {"*", "/"}
\* a line that is operand operator operand operator operand, spaces apart
IsChain(s) ==
  /\ Len(s) = 5
  /\ s[1] \in Digits /\ s[3] \in Digits /\ s[5] \in Digits
  /\ s[2] \in AddChars \cup MulChars /\ s[4] \in AddChars \cup MulChars
Finished == pc \in {"print", "crashed"}
Line1p2m3 == <<"1", " ", "+", " ", "2", " ", "*", " ", "3">>
LineP1p2Pm3 == <<"(", "1", " ", "+", " ", "2", ")", " ", "*", " ", "3">>
Line5m2m1 == <<"5", " ", "-", " ", "2", " ", "-", " ", "1">>
Line8d4d2 == <<"8", " ", "/", " ", "4", " ", "/", " ", "2">>
Line1pm2m3 == <<"1", " ", "+", " ", "-", "2", " ", "*", " ", "3">>
LineMP1p2Pm3 == <<"-", "(", "1", " ", "+", " ", "2", ")", " ", "*", " ", "3">>

\* C3: * and / bind tighter than + and -: the tokens of "a o1 b o2 c" with o1
\* additive and o2 multiplicative parse to (o1 a (o2 b c)), those of
\* "a o2 b o1 c" to (o1 (o2 a b) c); "1 + 2 * 3" evaluates to 7 and
\* "(1 + 2) * 3" parses to (Mul (Plus 1 2) 3) and evaluates to 9.
C3_Precedence ==
  LET s == NonSpace(text) IN
  /\ (Finished /\ IsChain(s) /\ s[2] \in AddChars /\ s[4] \in MulChars)
       => parseRes = POk(BinC(s[2], Dg(s[1]), BinC(s[4], Dg(s[3]), Dg(s[5]))), <<>>)
  /\ (Finished /\ IsChain(s) /\ s[2] \in MulChars /\ s[4] \in AddChars)
       => parseRes = POk(BinC(s[4], BinC(s[2], Dg(s[1]), Dg(s[3])), Dg(s[5])), <<>>)
  /\ (Finished /\ text = Line1p2m3) => evalRes = Val(7)
  /\ (Finished /\ text = LineP1p2Pm3)
       => /\ parseRes = POk(BinaryExpr("Mul",
               BinaryExpr("Plus", Number(1), Number(2)), Number(3)), <<>>)
          /\ evalRes = Val(9)

\* C4: a chain of operators of one precedence level groups to the right: the
\* tokens of "a o1 b o2 c" with both operators additive, or both
\* multiplicative, parse to (o1 a (o2 b c)); "5 - 2 - 1" evaluates to 4 and
\* "8 / 4 / 2" to 4.
C4_RightGrouping ==
  LET s == NonSpace(text) IN
  /\ (Finished /\ IsChain(s)
        /\ (({s[2], s[4]} \subseteq AddChars) \/ ({s[2], s[4]} \subseteq MulChars)))
       => parseRes = POk(BinC(s[2], Dg(s[1]), BinC(s[4], Dg(s[3]), Dg(s[5]))), <<>>)
  /\ (Finished /\ text = Line5m2m1) => evalRes = Val(4)
  /\ (Finished /\ text = Line8d4d2) => evalRes = Val(4)

\* C5: a '-' where a factor is required negates exactly the next factor, and
\* the operator after that factor takes the Unary node as its left operand:
\* "-a * b" parses to (Mul (Neg a) b), "1 + -2 * 3" evaluates to -5 and
\* "-(1 + 2) * 3" to -9.
C5_NegationBindsFactor ==
  LET s == NonSpace(text) IN
  /\ (Finished /\ Len(s) = 4 /\ s[1] = "-" /\ s[2] \in Digits
        /\ s[3] \in AddChars \cup MulChars /\ s[4] \in Digits)
       => parseRes = POk(BinC(s[3], Neg(Dg(s[2])), Dg(s[4])), <<>>)
  /\ (Finished /\ text = Line1pm2m3) => evalRes = Val(-5)
  /\ (Finished /\ text = LineMP1p2Pm3) => evalRes = Val(-9)

\* C6: the token sequence tokenize returns holds no Space token.
C6_NoSpaceToken ==
  pc = "parse" => \A i \in DOMAIN parser_tokens : parser_tokens[i].type # "Space"

\* the characters next_token has an arm for
Recognized == {" ", "(", ")"} \cup OperatorChars \cup Digits
FirstUnrecognized(s) ==
  CHOOSE i \in DOMAIN s :
    s[i] \notin Recognized /\ \A j \in 1..(i - 1) : s[j] \in Recognized

\* C7: the column counter is 1 plus the number of characters consumed, and a
\* lexical error carries line 1 and the 1-based position of the first
\* character of the line that the lexer does not recognize.
C7_ErrorColumn ==
  /\ pc = "tokenize" => col = 1 + (Len(text) - Len(chars))
  /\ lexErr.kind = "Err" =>
       /\ lexErr.err.line = 1
       /\ lexErr.err.col = FirstUnrecognized(text)
       /\ lexErr.err.col = 1 + (Len(text) - Len(chars))

C7_Witness ==
  /\ lexErr.kind = "Err"
  /\ text = <<"1", "2", "3", "4", "5", "@", "1">>
  /\ lexErr.err.col = 6

\* C8 as stated: tokenize fails on every line with a character other than a
\* space, a parenthesis, + - * / or a digit, and succeeds only on lines made
\* of those characters.
C8_FailsOutsideSpecAlphabet ==
  Lexed => (lexErr.kind = "Err"
              <=> \E i \in DOMAIN text :
                    text[i] \notin {" ", "(", ")", "+", "-", "*", "/"} \cup Digits)

\* C8 amended: tokenize fails, and returns no token sequence, exactly on the
\* lines with a character other than a space, a parenthesis, + - * / % or a
\* digit.
C8_FailsOutsideLexerAlphabet ==
  /\ Lexed => (lexErr.kind = "Err"
                 <=> \E i \in DOMAIN text :
                       text[i] \notin {" ", "(", ")", "+", "-", "*", "/", "%"}
                                        \cup Digits)
  /\ lexErr.kind = "Err" =>
       /\ pc = "print"
       /\ tokens = <<>> /\ parser_tokens = <<>> /\ parseRes = None

C8_Witness ==
  /\ lexErr.kind = "Err"
  /\ text = <<"1", "+", "2", "@">>
  /\ tokens = <<>>

\* C9: a line that is one run of decimal digits evaluates to the integer it
\* writes; the conversion in parse_factor does not fail.
C9_LiteralEvaluates ==
  (AllDigits(text) /\ pc \in {"eval", "print", "crashed"})
    => /\ parseRes.kind = "Ok"
       /\ pc # "crashed"
       /\ pc = "print" => /\ evalRes.kind = "Val"
                          /\ evalRes.v >= 0
                          /\ Decimal(evalRes.v) = StripZeros(text)

====
